---- MODULE Spec2Model ----
(***************************************************************************)
(* A model of vpype's data model (src/vpype/model.py): VectorData (a       *)
(* mapping from layer id to LineCollection objects held by reference),     *)
(* LineCollection (an ordered list of lines), the merge engine, reloop,    *)
(* the path flattener and the multilayer import's layer assignment.        *)
(*                                                                         *)
(* A point is a complex number; the model keeps points on the real axis    *)
(* and represents them by integers, so the Euclidean distance of two       *)
(* points a, b is |a - b|.  A line is a sequence of points, a collection   *)
(* a sequence of lines.  LineCollection objects live in a heap and are     *)
(* named by their index in it, so that two layers can hold the very same   *)
(* object, as Python references do.                                        *)
(***************************************************************************)
EXTENDS Integers, Sequences, FiniteSets, TLC

\* ---------------------------------------------------------------- bounds
MaxObjs == 2        \* LineCollection objects the caller creates
MaxLines == 3       \* lines a collection may grow to (stands for memory)
MaxCoord == 1       \* largest coordinate a translation may reach
MaxLayerId == 2     \* layer ids the caller uses are MinLayerId..MaxLayerId
MaxOps == 5         \* operations the caller issues in one run

MaxMergeLines == 3  \* lines of a collection handed to merge
MaxMergePts == 4    \* points of such a collection, all lines together
MaxPoint == 2       \* points are 0..MaxPoint
MaxTol == 1         \* tolerances are 0..MaxTol

MaxReloopLines == 2 \* lines of a collection handed to reloop
MaxReloopPts == 3   \* points of such a line, 0 included
MaxReloopCoord == 1 \* their coordinates are 0, 2, .., 2 * MaxReloopCoord

MaxSegments == 2    \* segments of a path
MaxLength == 5      \* lengths of curve segments are 0..MaxLength
MaxQuant == 3       \* quantizations are 1..MaxQuant
MaxEnd == 1         \* segments start and end at 0..MaxEnd

MaxNodes == 3       \* children of a document's root
MaxStr == 2         \* characters of a label or id attribute

MinLayerId == 0 - 1

Vds == {1, 2}
ValidIds == 1..MaxLayerId
InvalidIds == MinLayerId..0
LayerIds == InvalidIds \cup ValidIds
NewSizes == 0..1    \* a new collection holds no line or one line

\* ------------------------------------------------------------- variables
VARIABLES
    heap,       \* heap[o]: the _lines of LineCollection object o
    layers,     \* layers[v]: the _layers dict of VectorData v, a sequence
                \* of [id, lc] entries in insertion order (lc is an object)
    pc,         \* "idle", or "lc_extend" inside LineCollection.extend's loop
    it_obj,     \* the object LineCollection.extend is iterating and extending
    it_pos,     \* the next index of that iteration (1-based)
    last,       \* the last operation issued, its arguments, whether it raised
    nops        \* the number of operations issued

vdvars == <<heap, layers, pc, it_obj, it_pos, last, nops>>

\* LineCollection.merge, one call
VARIABLES
    m_pc,       \* "off", "call", "outer" (while len(index) > 0), "inner"
                \* (while True), "done" (returned)
    m_in,       \* self.lines as the call found them: the lines the index holds
    m_tol,      \* tolerance
    m_flip,     \* flip
    m_lines,    \* self._lines
    m_avail,    \* the handles (positions in m_in) still in the index
    m_line,     \* line, the chain being grown
    m_new,      \* new_lines
    m_pops      \* the handles taken out of the index so far, in order, each
                \* with how it left, "seed" (pop_front) or "ext" (pop), and
                \* for "ext" whether the two endpoints joined were one point

mvars == <<m_pc, m_in, m_tol, m_flip, m_lines, m_avail, m_line, m_new, m_pops>>

\* LineCollection.reloop, one call
VARIABLES
    r_pc,       \* "off", "loop" (the for loop), "done" (returned), "failed"
                \* (an exception left the call)
    r_in,       \* self._lines as the call found them
    r_tol,      \* tolerance
    r_lines,    \* self._lines
    r_i         \* the position of the for loop (1-based)

rvars == <<r_pc, r_in, r_tol, r_lines, r_i>>

\* _convert_flattened_paths, the walk over the segments of one path
VARIABLES
    f_pc,       \* "off", "walk" (for elem in result.path), "done"
    f_q,        \* quantization, in the unit the lengths are counted in
    f_elem,     \* the segment walked last
    f_coords,   \* coords, the points that segment gave
    f_sub,      \* sub_paths
    f_n         \* the number of segments walked

fvars == <<f_pc, f_q, f_elem, f_coords, f_sub, f_n>>

\* read_multilayer_svg, which fills Vector Data 1
VARIABLES
    i_doc,      \* the children of the document's root, in document order:
                \* "g" a group, "p" an element that is no group
    i_pc,       \* "off", "top" (before the top-level elements), "groups"
                \* (between two iterations of the loop over the top-level
                \* groups), "id" (in an iteration, the label read and
                \* without digits), "add" (the layer id computed)
    i_pos,      \* the number of groups added: the enumerate index i
    i_last,     \* g, i and lid of the iteration under way
    i_hist      \* what was added so far, in the order added: layer id, lines

ivars == <<i_doc, i_pc, i_pos, i_last, i_hist>>

vars == <<vdvars, mvars, rvars, fvars, ivars>>

\* What the operations of one part leave alone
notvd == <<mvars, rvars, fvars, ivars>>
notmerge == <<vdvars, rvars, fvars, ivars>>
notreloop == <<vdvars, mvars, fvars, ivars>>
notflatten == <<vdvars, mvars, rvars, ivars>>
notimport == <<mvars, rvars, fvars, pc, it_obj, it_pos, last, nops>>

\* ------------------------------------------------------------ dict model
Keys(d) == {d[i].id : i \in DOMAIN d}

Has(d, k) == k \in Keys(d)

Get(d, k) == d[CHOOSE i \in DOMAIN d : d[i].id = k].lc

Put(d, k, o) ==
    IF Has(d, k)
    THEN [i \in DOMAIN d |-> IF d[i].id = k THEN [id |-> k, lc |-> o] ELSE d[i]]
    ELSE Append(d, [id |-> k, lc |-> o])

RECURSIVE Del(_, _)
Del(d, k) ==
    IF d = <<>> THEN <<>>
    ELSE IF Head(d).id = k THEN Tail(d)
    ELSE <<Head(d)>> \o Del(Tail(d), k)

\* -------------------------------------------------------- LineCollection
\* LineCollection.translate: line += c for every line (c on the real axis)
TranslateLine(line, c) == [i \in DOMAIN line |-> line[i] + c]

LCTranslate(lines, c) == [i \in DOMAIN lines |-> TranslateLine(lines[i], c)]

\* LineCollection.extend(lines) for another collection: append copies
LCExtend(dst, src) == dst \o src

RECURSIVE MaxOfLine(_)
MaxOfLine(line) ==
    IF line = <<>> THEN 0
    ELSE LET m == MaxOfLine(Tail(line))
         IN IF Head(line) > m THEN Head(line) ELSE m

RECURSIVE MaxOfLines(_)
MaxOfLines(lines) ==
    IF lines = <<>> THEN 0
    ELSE LET m == MaxOfLines(Tail(lines))
             h == MaxOfLine(Head(lines))
         IN IF h > m THEN h ELSE m

\* ------------------------------------------------------------ VectorData
\* VectorData.free_id / the loop of VectorData.add
RECURSIVE FreeFrom(_, _)
FreeFrom(d, vid) == IF Has(d, vid) THEN FreeFrom(d, vid + 1) ELSE vid

free_id(d) == FreeFrom(d, 1)

\* The layer id VectorData.add writes to
AddTarget(d, has_id, lid) == IF has_id THEN lid ELSE free_id(d)

\* VectorData.add on heap h and dict d.  The result says whether the call
\* is left inside LineCollection.extend iterating the very list it appends
\* to (hung # 0 names that object): that loop is then run step by step.
AddResult(h, d, o, has_id, lid) ==
    LET t == AddTarget(d, has_id, lid)
    IN IF Has(d, t)
       THEN LET dst == Get(d, t)
            IN IF dst = o
               THEN [heap |-> h, dict |-> d, hung |-> IF h[o] = <<>> THEN 0 ELSE o]
               ELSE [heap |-> [h EXCEPT ![dst] = LCExtend(h[dst], h[o])],
                     dict |-> d, hung |-> 0]
       ELSE [heap |-> h, dict |-> Put(d, t, o), hung |-> 0]

\* VectorData.extend: add every item of the other dict, in its order
RECURSIVE ExtendResult(_, _, _)
ExtendResult(h, d, items) ==
    IF items = <<>> THEN [heap |-> h, dict |-> d, hung |-> 0]
    ELSE LET r == AddResult(h, d, Head(items).lc, TRUE, Head(items).id)
         IN IF r.hung # 0 THEN r
            ELSE ExtendResult(r.heap, r.dict, Tail(items))

\* VectorData.translate: every layer's collection in turn
RECURSIVE VDTranslate(_, _, _)
VDTranslate(h, d, c) ==
    IF d = <<>> THEN h
    ELSE VDTranslate([h EXCEPT ![Head(d).lc] = LCTranslate(h[Head(d).lc], c)],
                     Tail(d), c)

Fits(h) == \A o \in DOMAIN h : Len(h[o]) <= MaxLines /\ MaxOfLines(h[o]) <= MaxCoord

Op(name, v, has_id, lid, o, raised) ==
    [op |-> name, vd |-> v, has_id |-> has_id, lid |-> lid, lc |-> o,
     raised |-> raised]

\* Two empty Vector Data, and the collections h already built
InitVD(h) ==
    /\ heap = h
    /\ layers = [v \in Vds |-> <<>>]
    /\ pc = "idle"
    /\ it_obj = 0
    /\ it_pos = 0
    /\ last = Op("none", 0, FALSE, 0, 0, FALSE)
    /\ nops = 0

Idle == pc = "idle" /\ nops < MaxOps

\* LineCollection(lines): the caller builds a collection of n lines
NewLC(n) ==
    /\ Idle
    /\ UNCHANGED notvd
    /\ Len(heap) < MaxObjs
    /\ heap' = Append(heap, [i \in 1..n |-> <<0>>])
    /\ last' = Op("new", 0, FALSE, 0, Len(heap) + 1, FALSE)
    /\ nops' = nops + 1
    /\ UNCHANGED <<layers, pc, it_obj, it_pos>>

\* vd.add(lc, layer_id)
Add(v, o, has_id, lid) ==
    /\ Idle
    /\ UNCHANGED notvd
    /\ LET r == AddResult(heap, layers[v], o, has_id, lid)
       IN /\ Fits(r.heap)
          /\ heap' = r.heap
          /\ layers' = [layers EXCEPT ![v] = r.dict]
          /\ pc' = IF r.hung # 0 THEN "lc_extend" ELSE "idle"
          /\ it_obj' = r.hung
          /\ it_pos' = IF r.hung # 0 THEN 1 ELSE 0
    /\ last' = Op("add", v, has_id, IF has_id THEN lid ELSE 0, o, FALSE)
    /\ nops' = nops + 1

\* vd[layer_id] = value, value a LineCollection
SetItem(v, lid, o) ==
    /\ Idle
    /\ UNCHANGED notvd
    /\ IF lid < 1
       THEN /\ last' = Op("setitem", v, TRUE, lid, o, TRUE)
            /\ UNCHANGED layers
       ELSE /\ last' = Op("setitem", v, TRUE, lid, o, FALSE)
            /\ layers' = [layers EXCEPT ![v] = Put(@, lid, o)]
    /\ nops' = nops + 1
    /\ UNCHANGED <<heap, pc, it_obj, it_pos>>

\* vd.pop(layer_id)
Pop(v, lid) ==
    /\ Idle
    /\ UNCHANGED notvd
    /\ IF Has(layers[v], lid)
       THEN /\ last' = Op("pop", v, TRUE, lid, Get(layers[v], lid), FALSE)
            /\ layers' = [layers EXCEPT ![v] = Del(@, lid)]
       ELSE /\ last' = Op("pop", v, TRUE, lid, 0, TRUE)
            /\ UNCHANGED layers
    /\ nops' = nops + 1
    /\ UNCHANGED <<heap, pc, it_obj, it_pos>>

\* vd.extend(other)
Extend(v, w) ==
    /\ Idle
    /\ UNCHANGED notvd
    /\ LET r == ExtendResult(heap, layers[v], layers[w])
       IN /\ Fits(r.heap)
          /\ heap' = r.heap
          /\ layers' = [layers EXCEPT ![v] = r.dict]
          /\ pc' = IF r.hung # 0 THEN "lc_extend" ELSE "idle"
          /\ it_obj' = r.hung
          /\ it_pos' = IF r.hung # 0 THEN 1 ELSE 0
    /\ last' = Op("extend", v, FALSE, 0, w, FALSE)
    /\ nops' = nops + 1

\* vd.translate(dx, 0)
Translate(v, dx) ==
    /\ Idle
    /\ UNCHANGED notvd
    /\ layers[v] # <<>>
    /\ Fits(VDTranslate(heap, layers[v], dx))
    /\ heap' = VDTranslate(heap, layers[v], dx)
    /\ last' = Op("translate", v, FALSE, 0, 0, FALSE)
    /\ nops' = nops + 1
    /\ UNCHANGED <<layers, pc, it_obj, it_pos>>

\* One iteration of "for line in lines: self.append(line)" with lines the
\* list being appended to: the list iterator reads index it_pos, the append
\* makes the list one longer, so the iterator never runs out and the call
\* never returns (the bound MaxLines stands for the memory running out).
LCExtendStep ==
    /\ pc = "lc_extend"
    /\ UNCHANGED notvd
    /\ IF it_pos > Len(heap[it_obj])
       THEN \* the iterator is exhausted: extend, and the call, return
            /\ pc' = "idle"
            /\ it_obj' = 0
            /\ it_pos' = 0
            /\ UNCHANGED heap
       ELSE /\ Len(heap[it_obj]) < MaxLines
            /\ heap' = [heap EXCEPT ![it_obj] = Append(@, @[it_pos])]
            /\ it_pos' = it_pos + 1
            /\ UNCHANGED <<pc, it_obj>>
    /\ UNCHANGED <<layers, last, nops>>

NextVD ==
    \/ \E n \in NewSizes : NewLC(n)
    \/ \E v \in Vds, o \in DOMAIN heap, lid \in ValidIds : Add(v, o, TRUE, lid)
    \/ \E v \in Vds, o \in DOMAIN heap : Add(v, o, FALSE, 0)
    \/ \E v \in Vds, o \in DOMAIN heap, lid \in InvalidIds : Add(v, o, TRUE, lid)
    \/ \E v \in Vds, o \in DOMAIN heap, lid \in LayerIds : SetItem(v, lid, o)
    \/ \E v \in Vds, lid \in LayerIds : Pop(v, lid)
    \/ \E v \in Vds, w \in Vds : Extend(v, w)
    \/ \E v \in Vds : Translate(v, 1)
    \/ LCExtendStep

\* ------------------------------------------------------ LineCollection.merge
\* np.flip
Flip(line) == [i \in 1..Len(line) |-> line[Len(line) + 1 - i]]

\* A join that keeps the shared point once
HstackOnce(line, new_line) ==
    IF line # <<>> /\ new_line # <<>> /\ line[Len(line)] = new_line[1]
    THEN line \o Tail(new_line)
    ELSE line \o new_line

\* np.hstack([line, new_line])
Hstack(line, new_line) == line \o new_line

\* An early return for the empty collection only
TooFewIsNone(lines) == Len(lines) < 1

\* "if len(self) < 2: return"
TooFewToMerge(lines) == Len(lines) < 2

\* A merge that never queries the head
QueryHeadNever(idx, flip) == FALSE

\* "if idx is None and flip": the head of the chain is queried too
QueryHead(idx, flip) == idx = 0 /\ flip

\* The Spatial Endpoint Index (LineIndex: spec, section 4.5).  It holds the
\* lines m_in at the handles avail.  A line's leading endpoint is always
\* registered, so that a chain's tail can be continued by it as it stands;
\* the trailing endpoint is registered too when reversal is permitted, and a
\* match on it is flagged "reverse".
Dist(a, b) == IF a >= b THEN a - b ELSE b - a

NoMatch == [idx |-> 0, reverse |-> FALSE]

IndexEndpoints(lines, avail, rev) ==
    {[idx |-> h, reverse |-> FALSE, pt |-> lines[h][1]] : h \in avail}
    \cup (IF rev
          THEN {[idx |-> h, reverse |-> TRUE, pt |-> lines[h][Len(lines[h])]] : h \in avail}
          ELSE {})

\* find_nearest_within(p, tolerance): every answer the contract allows, one
\* per nearest endpoint within the tolerance (ties are the implementer's)
FindNearestWithin(lines, avail, rev, p, tol) ==
    LET within == {c \in IndexEndpoints(lines, avail, rev) : Dist(c.pt, p) <= tol}
        nearest == {c \in within : \A d \in within : Dist(c.pt, p) <= Dist(d.pt, p)}
    IN IF within = {} THEN {NoMatch}
       ELSE {[idx |-> c.idx, reverse |-> c.reverse] : c \in nearest}

\* pop_front(): the handle first in insertion order
PopFront(avail) == CHOOSE h \in avail : \A g \in avail : h <= g

\* pop(handle), pop_front(): the index without that line
IndexRemove(avail, h) == avail \ {h}

\* The collections merge is called on: up to MaxMergeLines lines, each of
\* one point or of two (merge reads a line's first and last point only),
\* of up to MaxMergePts points together
Points == 0..MaxPoint

MergeLine == {<<a>> : a \in Points} \cup {<<a, b>> : a \in Points, b \in Points}

\* sum(len(line) for line in lines)
RECURSIVE TotalPoints(_)
TotalPoints(lines) ==
    IF lines = <<>> THEN 0 ELSE Len(Head(lines)) + TotalPoints(Tail(lines))

MergeInputs ==
    {lines \in UNION {[1..n -> MergeLine] : n \in 0..MaxMergeLines} :
        TotalPoints(lines) <= MaxMergePts}

\* A call of merge about to start (at "call"), or no call at all ("off")
InitMerge(at, inputs, tols, flips) ==
    /\ m_pc = at
    /\ m_in \in inputs
    /\ m_tol \in tols
    /\ m_flip \in flips
    /\ m_lines = m_in
    /\ m_avail = {}
    /\ m_line = <<>>
    /\ m_new = <<>>
    /\ m_pops = <<>>

\* merge is entered: return at once, or build the index over self.lines
MergeCall ==
    /\ m_pc = "call"
    /\ UNCHANGED notmerge
    /\ IF TooFewToMerge(m_lines)
       THEN /\ m_pc' = "done"
            /\ UNCHANGED m_avail
       ELSE /\ m_pc' = "outer"
            /\ m_avail' = DOMAIN m_in
    /\ UNCHANGED <<m_in, m_tol, m_flip, m_lines, m_line, m_new, m_pops>>

\* "while len(index) > 0: line = index.pop_front()", or the loop's end and
\* "self._lines = new_lines"
MergeOuter ==
    /\ m_pc = "outer"
    /\ UNCHANGED notmerge
    /\ IF m_avail # {}
       THEN LET h == PopFront(m_avail)
            IN /\ m_line' = m_in[h]
               /\ m_avail' = IndexRemove(m_avail, h)
               /\ m_pops' = Append(m_pops, [idx |-> h, how |-> "seed", same |-> FALSE])
               /\ m_pc' = "inner"
               /\ UNCHANGED m_lines
       ELSE /\ m_lines' = m_new
            /\ m_pc' = "done"
            /\ UNCHANGED <<m_line, m_avail, m_pops>>
    /\ UNCHANGED <<m_in, m_tol, m_flip, m_new>>

\* One iteration of "while True": query the tail; with flip, and nothing at
\* the tail, query the head and flip the chain; then break and emit the
\* chain, or pop the line found and append it
MergeInner ==
    /\ m_pc = "inner"
    /\ UNCHANGED notmerge
    /\ \E r1 \in FindNearestWithin(m_in, m_avail, m_flip, m_line[Len(m_line)], m_tol) :
       \E r2 \in (IF QueryHead(r1.idx, m_flip)
                  THEN FindNearestWithin(m_in, m_avail, m_flip, m_line[1], m_tol)
                  ELSE {r1}) :
          LET line == IF QueryHead(r1.idx, m_flip) THEN Flip(m_line) ELSE m_line
              new_line == IF r2.reverse THEN Flip(m_in[r2.idx]) ELSE m_in[r2.idx]
          IN IF r2.idx = 0
             THEN /\ m_new' = Append(m_new, line)
                  /\ m_line' = <<>>
                  /\ m_pc' = "outer"
                  /\ UNCHANGED <<m_avail, m_pops>>
             ELSE /\ m_avail' = IndexRemove(m_avail, r2.idx)
                  /\ m_pops' = Append(m_pops, [idx |-> r2.idx, how |-> "ext",
                                                same |-> line[Len(line)] = new_line[1]])
                  /\ m_line' = Hstack(line, new_line)
                  /\ m_pc' = "inner"
                  /\ UNCHANGED m_new
    /\ UNCHANGED <<m_in, m_tol, m_flip, m_lines>>

NextMerge == MergeCall \/ MergeOuter \/ MergeInner

\* ----------------------------------------------------- LineCollection.reloop
\* Coordinates handed to reloop are even, so that the mean of two is exact
ReloopPoints == {2 * k : k \in 0..MaxReloopCoord}

ReloopTols == {0, 2}

ReloopLine == UNION {[1..n -> ReloopPoints] : n \in 0..MaxReloopPts}

ReloopInputs == UNION {[1..n -> ReloopLine] : n \in 0..MaxReloopLines}

\* 0.5 * (line[0] + line[-1])
Mean(a, b) == (a + b) \div 2

\* "line[0] = end_point; line[-1] = end_point", in place
Reseamed(line) ==
    LET end_point == Mean(line[1], line[Len(line)])
    IN [i \in 1..Len(line) |-> IF i = 1 \/ i = Len(line) THEN end_point ELSE line[i]]

Min2(a, b) == IF a <= b THEN a ELSE b

\* _reloop_line(line, loc) past the draw of loc (loc counts from 0):
\* np.hstack([line[loc:], line[1 : min(loc + 1, len(line))]])
ReloopLineAt(line, loc) ==
    LET l == Reseamed(line)
    IN SubSeq(l, loc + 1, Len(l)) \o SubSeq(l, 2, Min2(loc + 1, Len(l)))

\* np.random.randint(len(line) - 1): the values it may return; none, and a
\* ValueError, when len(line) - 1 <= 0
RandomLocs(line) == 0..(Len(line) - 2)

\* "np.hypot(delta.real, delta.imag) <= tolerance" for delta = line[-1] - line[0]
IsClosed(line, tol) == Dist(line[Len(line)], line[1]) <= tol

InitReloop(at, inputs, tols) ==
    /\ r_pc = at
    /\ r_in \in inputs
    /\ r_tol \in tols
    /\ r_lines = r_in
    /\ r_i = 1

\* One iteration of "for i, line in enumerate(self._lines)", or its end
ReloopStep ==
    /\ r_pc = "loop"
    /\ UNCHANGED notreloop
    /\ UNCHANGED <<r_in, r_tol>>
    /\ IF r_i > Len(r_lines)
       THEN r_pc' = "done" /\ UNCHANGED <<r_lines, r_i>>
       ELSE LET line == r_lines[r_i]
            IN IF line = <<>>
               THEN \* line[-1] on an empty array: IndexError
                    r_pc' = "failed" /\ UNCHANGED <<r_lines, r_i>>
               ELSE IF ~IsClosed(line, r_tol)
               THEN r_i' = r_i + 1 /\ UNCHANGED <<r_pc, r_lines>>
               ELSE IF RandomLocs(line) = {}
               THEN \* randint(0): ValueError
                    r_pc' = "failed" /\ UNCHANGED <<r_lines, r_i>>
               ELSE \E loc \in RandomLocs(line) :
                       /\ r_lines' = [r_lines EXCEPT ![r_i] = ReloopLineAt(line, loc)]
                       /\ r_i' = r_i + 1
                       /\ UNCHANGED r_pc

NextReloop == ReloopStep

\* ------------------------------------------------- _convert_flattened_paths
\* A point of a path: a segment's start or end, at coordinate x, or the
\* point elem.point(num / den) of the curve walked k-th
EndPoint(x) == [x |-> x, seg |-> 0, num |-> 0, den |-> 1]

SamplePoint(k, num, den) == [x |-> 0, seg |-> k, num |-> num, den |-> den]

\* The segments of a path: svg.Line or a curve, with elem.start, elem.end
\* and, for a curve, elem.length()
Segments ==
    [kind : {"line"}, start : 0..MaxEnd, end : 0..MaxEnd, length : {0}]
    \cup [kind : {"curve"}, start : 0..MaxEnd, end : 0..MaxEnd, length : 0..MaxLength]

NoSegment == [kind |-> "line", start |-> 0, end |-> 0, length |-> 0]

\* range(step) samples
InteriorCountAll(step) == IF step > 0 THEN step ELSE 0

\* len(range(step - 1))
InteriorCount(step) == IF step - 1 > 0 THEN step - 1 ELSE 0

\* int(math.ceil(elem.length() / quantization)), for quantization > 0
Steps(length, q) == (length + q - 1) \div q

\* coords of the segment walked k-th
Coords(elem, q, k) ==
    IF elem.kind = "line"
    THEN <<EndPoint(elem.start), EndPoint(elem.end)>>
    ELSE LET step == Steps(elem.length, q)
         IN <<EndPoint(elem.start)>>
            \o [i \in 1..InteriorCount(step) |-> SamplePoint(k, i, step)]
            \o <<EndPoint(elem.end)>>

\* "merge to last sub path if first coordinates match"
AddToSubPaths(sub_paths, coords) ==
    IF sub_paths # <<>>
       /\ sub_paths[Len(sub_paths)][Len(sub_paths[Len(sub_paths)])] = coords[1]
    THEN [sub_paths EXCEPT ![Len(sub_paths)] = @ \o Tail(coords)]
    ELSE Append(sub_paths, coords)

InitFlatten(at, quants) ==
    /\ f_pc = at
    /\ f_q \in quants
    /\ f_elem = NoSegment
    /\ f_coords = <<>>
    /\ f_sub = <<>>
    /\ f_n = 0

\* One iteration of "for elem in result.path"
FlattenSegment(elem) ==
    /\ f_pc = "walk"
    /\ UNCHANGED notflatten
    /\ f_n < MaxSegments
    /\ f_elem' = elem
    /\ f_coords' = Coords(elem, f_q, f_n + 1)
    /\ f_sub' = AddToSubPaths(f_sub, Coords(elem, f_q, f_n + 1))
    /\ f_n' = f_n + 1
    /\ UNCHANGED <<f_pc, f_q>>

\* The path has no more segments
FlattenEnd ==
    /\ f_pc = "walk"
    /\ UNCHANGED notflatten
    /\ f_pc' = "done"
    /\ UNCHANGED <<f_q, f_elem, f_coords, f_sub, f_n>>

NextFlatten == (\E elem \in Segments : FlattenSegment(elem)) \/ FlattenEnd

\* ------------------------------------------------------ read_multilayer_svg
\* The characters attributes are written in: a letter, the digit zero,
\* another digit
Chars == {"g", "0", "2"}

DigitChars == {"0", "1", "2", "3", "4", "5", "6", "7", "8", "9"}

AttrTexts == UNION {[1..n -> Chars] : n \in 0..MaxStr}

\* g.get(name): None (present is FALSE), or the attribute's text
Attrs == {[present |-> FALSE, text |-> <<>>]} \cup [present : {TRUE}, text : AttrTexts]

\* g.get(name) or ""
OrEmpty(attr) == IF attr.present THEN attr.text ELSE <<>>

\* re.sub("[^0-9]", "", text)
StripNonDigits(text) == SelectSeq(text, LAMBDA c : c \in DigitChars)

DigitValue(c) ==
    CASE c = "0" -> 0 [] c = "1" -> 1 [] c = "2" -> 2 [] c = "3" -> 3 [] c = "4" -> 4
      [] c = "5" -> 5 [] c = "6" -> 6 [] c = "7" -> 7 [] c = "8" -> 8 [] c = "9" -> 9

\* int(lid_str), lid_str a string of digits
RECURSIVE IntOf(_)
IntOf(digits) ==
    IF digits = <<>> THEN 0
    ELSE 10 * IntOf(SubSeq(digits, 1, Len(digits) - 1)) + DigitValue(digits[Len(digits)])

\* The layer id without the change of 0 to 1
LayerIdKeepZero(label, idattr, i) ==
    LET lid_str1 == StripNonDigits(OrEmpty(label))
        lid_str == IF lid_str1 = <<>> THEN StripNonDigits(OrEmpty(idattr)) ELSE lid_str1
    IN IF lid_str # <<>> THEN IntOf(lid_str) ELSE i + 1

\* "compute a decent layer ID" for the group of enumerate index i
LayerIdOf(label, idattr, i) ==
    LET lid_str1 == StripNonDigits(OrEmpty(label))
        lid_str == IF lid_str1 = <<>> THEN StripNonDigits(OrEmpty(idattr)) ELSE lid_str1
    IN IF lid_str # <<>>
       THEN LET lid == IntOf(lid_str) IN IF lid = 0 THEN 1 ELSE lid
       ELSE i + 1

Documents == UNION {[1..n -> {"g", "p"}] : n \in 0..MaxNodes}

\* The places in the document of its children of one kind, in order
RECURSIVE PlacesFrom(_, _, _)
PlacesFrom(doc, kind, n) ==
    IF n > Len(doc) THEN <<>>
    ELSE (IF doc[n] = kind THEN <<n>> ELSE <<>>) \o PlacesFrom(doc, kind, n + 1)

\* doc.root.iterfind("svg:g", SVG_NAMESPACE)
Groups(doc) == PlacesFrom(doc, "g", 1)

\* doc.flatten_all_paths(group_filter=lambda x: x is doc.root)
TopLevelElements(doc) == PlacesFrom(doc, "p", 1)

\* The collection _convert_flattened_paths returns for elements at the given
\* places of the document: one line each, whose point tells the place
Converted(places) == [j \in DOMAIN places |-> <<places[j]>>]

\* g.get(name) of an attribute the group has not
Absent == [present |-> FALSE, text |-> <<>>]

NoGroup == [label |-> Absent, idattr |-> Absent, index |-> 0, lid |-> 0]

InitImport(at, docs) ==
    /\ i_doc \in docs
    /\ i_pc = at
    /\ i_pos = 0
    /\ i_last = NoGroup
    /\ i_hist = <<>>

\* vector_data.add(lc, lid) with lc a collection just built
ImportAdd(lines, lid) ==
    LET h == Append(heap, lines)
        r == AddResult(h, layers[1], Len(h), TRUE, lid)
    IN /\ heap' = r.heap
       /\ layers' = [layers EXCEPT ![1] = r.dict]
       /\ i_hist' = Append(i_hist, [lid |-> lid, lines |-> lines])

\* "if top_level_elements: vector_data.add(..., 1)"
ImportTop ==
    /\ i_pc = "top"
    /\ UNCHANGED notimport
    /\ IF TopLevelElements(i_doc) # <<>>
       THEN ImportAdd(Converted(TopLevelElements(i_doc)), 1)
       ELSE UNCHANGED <<heap, layers, i_hist>>
    /\ i_pc' = "groups"
    /\ UNCHANGED <<i_doc, i_pos, i_last>>

\* An iteration of "for i, g in enumerate(doc.root.iterfind(...))" begins:
\* the label is read; if it has digits they give the layer id
ImportGroupLabel(label) ==
    /\ i_pc = "groups"
    /\ UNCHANGED notimport
    /\ i_pos < Len(Groups(i_doc))
    /\ IF StripNonDigits(OrEmpty(label)) # <<>>
       THEN /\ i_last' = [label |-> label, idattr |-> Absent, index |-> i_pos,
                          lid |-> LayerIdOf(label, Absent, i_pos)]
            /\ i_pc' = "add"
       ELSE /\ i_last' = [label |-> label, idattr |-> Absent, index |-> i_pos,
                          lid |-> 0]
            /\ i_pc' = "id"
    /\ UNCHANGED <<heap, layers, i_doc, i_pos, i_hist>>

\* "if not lid_str": the id attribute is read, and the layer id computed
ImportGroupIdAttr(idattr) ==
    /\ i_pc = "id"
    /\ UNCHANGED notimport
    /\ i_last' = [i_last EXCEPT !.idattr = idattr,
                                !.lid = LayerIdOf(i_last.label, idattr, i_pos)]
    /\ i_pc' = "add"
    /\ UNCHANGED <<heap, layers, i_doc, i_pos, i_hist>>

\* The iteration ends: the group's content is converted and added
ImportGroupAdd ==
    /\ i_pc = "add"
    /\ UNCHANGED notimport
    /\ ImportAdd(Converted(<<Groups(i_doc)[i_pos + 1]>>), i_last.lid)
    /\ i_last' = NoGroup
    /\ i_pos' = i_pos + 1
    /\ i_pc' = "groups"
    /\ UNCHANGED i_doc

NextImport ==
    \/ ImportTop
    \/ \E label \in Attrs : ImportGroupLabel(label)
    \/ \E idattr \in Attrs : ImportGroupIdAttr(idattr)
    \/ ImportGroupAdd

\* --------------------------------------------------------- specifications
\* A run of calls on two Vector Data
Init ==
    /\ InitVD(<<>>)
    /\ InitMerge("off", {<<>>}, {0}, {FALSE})
    /\ InitReloop("off", {<<>>}, {0})
    /\ InitFlatten("off", {1})
    /\ InitImport("off", {<<>>})

Next == NextVD

Spec == Init /\ [][Next]_vars

\* One call of LineCollection.merge; the call is sequential code that keeps
\* running until it returns
MergeInit ==
    /\ InitVD(<<>>)
    /\ InitMerge("call", MergeInputs, 0..MaxTol, BOOLEAN)
    /\ InitReloop("off", {<<>>}, {0})
    /\ InitFlatten("off", {1})
    /\ InitImport("off", {<<>>})

MergeSpec == MergeInit /\ [][NextMerge]_vars /\ WF_vars(NextMerge)

\* One call of LineCollection.reloop
ReloopInit ==
    /\ InitVD(<<>>)
    /\ InitMerge("off", {<<>>}, {0}, {FALSE})
    /\ InitReloop("loop", ReloopInputs, ReloopTols)
    /\ InitFlatten("off", {1})
    /\ InitImport("off", {<<>>})

ReloopSpec == ReloopInit /\ [][NextReloop]_vars

\* The walk over one path's segments
FlattenInit ==
    /\ InitVD(<<>>)
    /\ InitMerge("off", {<<>>}, {0}, {FALSE})
    /\ InitReloop("off", {<<>>}, {0})
    /\ InitFlatten("walk", 1..MaxQuant)
    /\ InitImport("off", {<<>>})

FlattenSpec == FlattenInit /\ [][NextFlatten]_vars

\* One multilayer import into an empty Vector Data
ImportInit ==
    /\ InitVD(<<>>)
    /\ InitMerge("off", {<<>>}, {0}, {FALSE})
    /\ InitReloop("off", {<<>>}, {0})
    /\ InitFlatten("off", {1})
    /\ InitImport("top", Documents)

ImportSpec == ImportInit /\ [][NextImport]_vars

\* ------------------------------------------------- claims about VectorData
\* The collection a layer id names, by value
Content(h, d, k) == h[Get(d, k)]

\* The smallest positive integer that is no key of d
SmallestUnused(d) == CHOOSE n \in 1..(Len(d) + 1) :
    /\ n \notin Keys(d)
    /\ \A m \in 1..(n - 1) : m \in Keys(d)

\* C1: a layer id that is 0 or negative is refused by add and by item
\* assignment, and the refused call leaves the layer map as it was; so every
\* layer id present in any Vector Data is >= 1.
C1_LayerIdsPositive ==
    /\ (last.op \in {"add", "setitem"} /\ last.has_id /\ last.lid < 1) => last.raised
    /\ \A v \in Vds : \A k \in Keys(layers[v]) : k >= 1

\* What a step that is a returned add leaves behind
AddContract ==
    (last'.op = "add" /\ nops' = nops + 1 /\ pc' = "idle") =>
        LET v == last'.vd
            t == IF last'.has_id THEN last'.lid ELSE SmallestUnused(layers[v])
        IN /\ Has(layers'[v], t)
           /\ Content(heap', layers'[v], t) =
                 IF Has(layers[v], t)
                 THEN Content(heap, layers[v], t) \o heap[last'.lc]
                 ELSE heap[last'.lc]
           /\ \A w \in Vds :
                 /\ Keys(layers'[w]) = Keys(layers[w]) \cup (IF w = v THEN {t} ELSE {})
                 /\ \A k \in Keys(layers[w]) :
                       (w # v \/ k # t) =>
                           Content(heap', layers'[w], k) = Content(heap, layers[w], k)

\* C2: a returned add(collection, id) wrote to id, or with id omitted to the
\* smallest unused positive id; a layer already there holds its previous
\* lines followed by the collection's, a new layer holds exactly the
\* collection's lines; every other layer is unchanged.
C2_AddExtendsOrCreates == [][AddContract]_vars

\* C5: a Vector Data exclusively owns its Line Collections: no collection
\* object is stored in two layers, of one Vector Data or of two, and the
\* collection passed to add or to item assignment is not itself the object
\* a layer holds afterwards.
C5_ExclusiveOwnership ==
    /\ \A v \in Vds, w \in Vds : \A i \in DOMAIN layers[v], j \in DOMAIN layers[w] :
          (v # w \/ i # j) => layers[v][i].lc # layers[w][j].lc
    /\ (last.op \in {"add", "setitem"} /\ ~last.raised /\ pc = "idle") =>
          \A v \in Vds : \A i \in DOMAIN layers[v] : layers[v][i].lc # last.lc

\* The lines the iterator of the extend under way has yet to read
Remaining == IF pc = "lc_extend" THEN Len(heap[it_obj]) - it_pos + 1 ELSE 0

\* An iteration of the loop of a call of add or extend leaves fewer lines
\* yet to read than there were before it
ReturnsOrNearsEnd ==
    (pc = "lc_extend" /\ pc' = "lc_extend") => Remaining' < Remaining

\* C11: add(lc, id) and extend(vd) terminate for every argument, the
\* collection already stored at the target layer included: a call either
\* returns at once or runs a loop over the lines passed in whose every
\* iteration leaves fewer lines to read, so that it returns after finitely
\* many, with finitely many lines in every layer.
C11_AddExtendTerminate == [][ReturnsOrNearsEnd]_vars

\* ------------------------------------------- claims about LineCollection.merge
MergeDone == m_pc = "done"

Extensions == {i \in DOMAIN m_pops : m_pops[i].how = "ext"}

CoincidingJoins == {i \in Extensions : m_pops[i].same}

\* Two lines A, B, tolerance 0, no flipping, A's last point is B's first
EndMeetsStart ==
    /\ Len(m_in) = 2
    /\ m_tol = 0
    /\ ~m_flip
    /\ m_in[1][Len(m_in[1])] = m_in[2][1]

\* C3 as claimed: the join keeps the shared point once, and the total point
\* count drops by one for every join of two coinciding endpoints.
C3_SharedPointOnce ==
    MergeDone =>
        /\ EndMeetsStart => m_lines = <<m_in[1] \o Tail(m_in[2])>>
        /\ TotalPoints(m_lines) = TotalPoints(m_in) - Cardinality(CoincidingJoins)

\* C3 as amended: two lines A, B with tolerance 0, flip off and A's last
\* point equal to B's first merge into the one line A followed by B, the
\* shared point appearing twice (len(A) + len(B) points); every merge keeps
\* the total point count, whether or not joined endpoints coincide.
C3_PointsConserved ==
    MergeDone =>
        /\ EndMeetsStart => m_lines = <<m_in[1] \o m_in[2]>>
        /\ TotalPoints(m_lines) = TotalPoints(m_in)

C3_Witness ==
    /\ MergeDone
    /\ EndMeetsStart
    /\ Len(m_lines) = 1
    /\ CoincidingJoins # {}

\* Two lines that start at one point and have no end within the tolerance
\* of the other's start: they join only if one of them is reversed
StartsMeetOnly ==
    /\ Len(m_in) = 2
    /\ m_in[1][1] = m_in[2][1]
    /\ Dist(m_in[1][Len(m_in[1])], m_in[2][1]) > m_tol
    /\ Dist(m_in[2][Len(m_in[2])], m_in[1][1]) > m_tol

\* C4: two lines whose first points are equal and that join only by
\* reversing one: with flip the merge leaves one line fewer, without flip
\* it leaves the lines as they were, in order and in point order.
C4_FlipJoinsStarts ==
    (MergeDone /\ StartsMeetOnly) =>
        IF m_flip THEN Len(m_lines) = Len(m_in) - 1 ELSE m_lines = m_in

C4_Witness ==
    /\ MergeDone
    /\ StartsMeetOnly
    /\ m_flip
    /\ Len(m_lines) = 1
    /\ m_in[1][Len(m_in[1])] # m_in[2][Len(m_in[2])]

\* A step that ends a chain appends the chain as it stood
ChainEmittedAsIs ==
    (m_pc = "inner" /\ m_pc' = "outer") => m_new' = Append(m_new, m_line)

\* C8: when neither the tail query nor the head query finds a candidate the
\* chain is emitted with the point order it had at that moment (it is
\* reversed only on a match at the head), for flip on and off.
C8_NoMatchKeepsOrder == [][ChainEmittedAsIs]_vars

\* Taking a line out makes the index one smaller; nothing makes it larger
IndexShrinks ==
    /\ (m_pc' = "inner") => Cardinality(m_avail') = Cardinality(m_avail) - 1
    /\ (m_pc \in {"outer", "inner"} /\ m_pc' # "inner") => m_avail' = m_avail

\* What a returned merge has done with its input lines
MergeAccounts ==
    MergeDone =>
        /\ Len(m_in) < 2 => m_lines = m_in /\ m_pops = <<>>
        /\ Len(m_in) >= 2 =>
              /\ Len(m_pops) = Len(m_in)
              /\ {m_pops[i].idx : i \in DOMAIN m_pops} = DOMAIN m_in
              /\ m_avail = {}
        /\ Len(m_lines) = Len(m_in) - Cardinality(Extensions)

\* C9: merge terminates; every step that takes a line out of the index
\* makes the index one smaller and no step makes it larger; when merge
\* returns every input line has left the index exactly once, the number of
\* lines is the input's minus the successful extensions, and a collection
\* of fewer than 2 lines is as it was.
C9_MergeTerminates ==
    /\ <>MergeDone
    /\ [][IndexShrinks]_vars
    /\ []MergeAccounts

C9_Witness ==
    /\ MergeDone
    /\ Len(m_in) = 3
    /\ Cardinality(Extensions) = 2
    /\ Len(m_lines) = 1

\* ------------------------------------------ claims about failing operations
\* C6: no operation partially mutates state before failing: when a call
\* fails (here reloop, on a line it cannot reseam), the collection is
\* exactly as it was before the call, the lines processed before the
\* failing line included.
C6_FailureLeavesStateAsBefore == r_pc = "failed" => r_lines = r_in

\* ------------------------------------------- claims about the path flattener
\* ceil(length / q): the least n with n * q >= length
CeilDiv(length, q) == CHOOSE n \in 0..length : n * q >= length /\ (n - 1) * q < length

Walked == f_n > 0

IsCurve == Walked /\ f_elem.kind = "curve"

\* A segment's points are its start, interior samples at the uniform
\* parameter steps i / n for i = 1 .. count - 2, and its end
UniformSamples(n) ==
    /\ f_coords[1] = EndPoint(f_elem.start)
    /\ f_coords[Len(f_coords)] = EndPoint(f_elem.end)
    /\ \A i \in 2..(Len(f_coords) - 1) :
          f_coords[i].seg = f_n /\ f_coords[i].num = i - 1 /\ f_coords[i].den = n

\* C10 as claimed: a straight segment gives exactly 2 points and a curve of
\* length L gives exactly ceil(L/q) + 1, for every L >= 0, a zero-length
\* curve included.
C10_CurvePointCountAll ==
    /\ (Walked /\ f_elem.kind = "line") => Len(f_coords) = 2
    /\ IsCurve =>
          /\ Len(f_coords) = CeilDiv(f_elem.length, f_q) + 1
          /\ UniformSamples(CeilDiv(f_elem.length, f_q))

\* C10 as amended: a straight segment gives exactly 2 points; a curve of
\* length L > 0 gives exactly ceil(L/q) + 1 points, its start, its end and
\* interior samples at the parameters i / ceil(L/q); a curve of length 0
\* gives exactly 2 points, its start and its end.
C10_CurvePointCount ==
    /\ (Walked /\ f_elem.kind = "line") =>
          f_coords = <<EndPoint(f_elem.start), EndPoint(f_elem.end)>>
    /\ (IsCurve /\ f_elem.length > 0) =>
          /\ Len(f_coords) = CeilDiv(f_elem.length, f_q) + 1
          /\ UniformSamples(CeilDiv(f_elem.length, f_q))
    /\ (IsCurve /\ f_elem.length = 0) =>
          f_coords = <<EndPoint(f_elem.start), EndPoint(f_elem.end)>>

C10_Witness ==
    /\ IsCurve
    /\ f_elem.length = 5
    /\ f_q = 2
    /\ Len(f_coords) = 4

\* --------------------------------------------- claims about the layer assignor
HasDigit(attr) == \E i \in DOMAIN OrEmpty(attr) : OrEmpty(attr)[i] \in DigitChars

AtLeastOne(n) == IF n < 1 THEN 1 ELSE n

\* The id the priority rule gives the group of the iteration under way
RuleId ==
    IF HasDigit(i_last.label)
    THEN AtLeastOne(IntOf(StripNonDigits(i_last.label.text)))
    ELSE IF HasDigit(i_last.idattr)
    THEN AtLeastOne(IntOf(StripNonDigits(i_last.idattr.text)))
    ELSE i_last.index + 1

\* The lines added to layer k, in the order added
RECURSIVE AddedTo(_, _)
AddedTo(hist, k) ==
    IF hist = <<>> THEN <<>>
    ELSE (IF Head(hist).lid = k THEN Head(hist).lines ELSE <<>>) \o AddedTo(Tail(hist), k)

\* Whether the lines of a collection stand in document order
InDocumentOrder(lines) ==
    \A a \in DOMAIN lines, b \in DOMAIN lines : a < b => lines[a][1] < lines[b][1]

LayerIdsByRule ==
    /\ i_pc = "add" => i_last.lid = RuleId /\ i_last.lid >= 1
    /\ Keys(layers[1]) = {i_hist[j].lid : j \in DOMAIN i_hist}
    /\ \A k \in Keys(layers[1]) : k >= 1

\* C7 as claimed: a group's layer id is the digits of its label if it has
\* any, else the digits of its id attribute if it has any, else its 1-based
\* position among the groups, with 0 changed to 1; it is always >= 1;
\* groups resolving to one id, and the top-level elements, which go to
\* layer 1, are accumulated in that layer in document order.
C7_AccumulatedInDocumentOrder ==
    /\ LayerIdsByRule
    /\ \A k \in Keys(layers[1]) :
          /\ Len(Content(heap, layers[1], k)) = Len(AddedTo(i_hist, k))
          /\ InDocumentOrder(Content(heap, layers[1], k))

\* The lines of a collection that come from groups
GroupLines(lines) ==
    SelectSeq(lines, LAMBDA l : \E n \in DOMAIN Groups(i_doc) : l[1] = Groups(i_doc)[n])

\* The lines the top-level elements gave layer k
TopLines(k) ==
    IF k = 1 /\ i_pc # "top" THEN Converted(TopLevelElements(i_doc)) ELSE <<>>

\* C7 as amended: the layer id is derived and >= 1 as claimed; groups
\* resolving to one id are accumulated in that layer in document order, none
\* replacing another; the top-level elements go to layer 1 ahead of every
\* group's lines, wherever they stand in the document.
C7_LayerIdByPriority ==
    /\ LayerIdsByRule
    /\ \A k \in Keys(layers[1]) :
          /\ Content(heap, layers[1], k) = AddedTo(i_hist, k)
          /\ Content(heap, layers[1], k) =
                TopLines(k) \o GroupLines(Content(heap, layers[1], k))
          /\ InDocumentOrder(GroupLines(Content(heap, layers[1], k)))

C7_Witness ==
    /\ i_doc = <<"g", "p", "g">>
    /\ i_pos = 2
    /\ Content(heap, layers[1], 1) = <<<<2>>, <<1>>, <<3>>>>

====
